---- MODULE Spec2Model ----
(***************************************************************************)
(* Model of the area_calc package: validate_params, FigureBase, Circle and *)
(* Triangle, with the Circle and Triangle of the module figures beside     *)
(* them.  Python values are records [t, v, s]: t is the exact runtime      *)
(* type, v the numeric value (integer-valued inputs), s the characters of  *)
(* a str.  Exceptions are records [kind, msg].                             *)
(***************************************************************************)
EXTENDS Integers, Sequences, FiniteSets, Bags, TLC

VARIABLES call, res, fig, built, areas, ncalls, ctx, areaThread

vars == <<call, res, fig, built, areas, ncalls, ctx, areaThread>>

(***************************************************************************)
(* Bounds of the model.                                                    *)
(***************************************************************************)
MaxArgs == 2
MaxSides == 4
MaxBigSide == 25
MaxCalls == 2

(***************************************************************************)
(* Python values.                                                          *)
(***************************************************************************)
IntV(n) == [t |-> "int", v |-> n, s |-> <<>>]
FloatV(n) == [t |-> "float", v |-> n, s |-> <<>>]
DecV(n) == [t |-> "Decimal", v |-> n, s |-> <<>>]
StrV(chars) == [t |-> "str", v |-> 0, s |-> chars]
BoolV(n) == [t |-> "bool", v |-> n, s |-> <<>>]
NoneV == [t |-> "NoneType", v |-> 0, s |-> <<>>]

Digits == {"0", "1", "2", "3", "4", "5", "6", "7", "8", "9"}

DigitVal(c) ==
    CASE c = "0" -> 0 [] c = "1" -> 1 [] c = "2" -> 2 [] c = "3" -> 3
      [] c = "4" -> 4 [] c = "5" -> 5 [] c = "6" -> 6 [] c = "7" -> 7
      [] c = "8" -> 8 [] c = "9" -> 9

\* str.isdigit(): a non-empty string all of whose characters are digits
isdigit(chars) == Len(chars) > 0 /\ \A i \in 1..Len(chars) : chars[i] \in Digits

RECURSIVE DigitsValue(_)
DigitsValue(chars) ==
    IF Len(chars) = 0 THEN 0
    ELSE 10 * DigitsValue(SubSeq(chars, 1, Len(chars) - 1)) + DigitVal(chars[Len(chars)])

\* float(arg) of a digit-only str
float(x) == FloatV(DigitsValue(x.s))

\* Decimal(arg) of an int or float: the same value as a Decimal
Decimal(x) == DecV(x.v)

(***************************************************************************)
(* Exceptions and results.                                                 *)
(***************************************************************************)
NoError == [kind |-> "none", msg |-> ""]
NoParamsError == [kind |-> "ValueError", msg |-> "No parameters provided."]
\* the message with the misspelling "sring"
TypeMismatchSring ==
    [kind |-> "TypeError",
     msg |-> "All parameters must be: int, float, Decimal or sring where all characters are digits."]

TypeMismatch ==
    [kind |-> "TypeError",
     msg |-> "All parameters must be: int, float, Decimal or string where all characters are digits."]
NonPositiveError == [kind |-> "ValueError", msg |-> "All parameters must be positive."]
InvalidShape == [kind |-> "ValueError", msg |-> "Triangle must have 3 sides."]
DegenerateShape ==
    [kind |-> "ValueError",
     msg |-> "Triangle is not valid: sum of two sides must be greater than third."]
NoDetectDecimal == [kind |-> "AttributeError", msg |-> "object has no attribute 'detect_decimal'"]
NoStaticDetectDecimal ==
    [kind |-> "AttributeError",
     msg |-> "type object 'FigureBase' has no attribute 'detect_decimal'"]
NoIsRight == [kind |-> "AttributeError", msg |-> "object has no attribute 'is_right'"]
Unimplemented ==
    [kind |-> "NotImplementedError", msg |-> "Subclasses must implement method '.area()'."]

UnsupportedOperand ==
    [kind |-> "TypeError",
     msg |-> "unsupported operand type(s) for +: 'decimal.Decimal' and 'float'"]

NoKwargs == [k \in {} |-> NoneV]

(***************************************************************************)
(* validate_params                                                         *)
(***************************************************************************)
\* the type test of one value, by isinstance: bool is a subclass of int
BadTypeIsInstance(x) ==
    \/ x.t \notin {"int", "float", "Decimal", "str", "bool"}
    \/ (x.t = "str" /\ ~isdigit(x.s))

\* type(arg) not in (int, float, Decimal, str) or a non-digit str
BadType(x) ==
    \/ x.t \notin {"int", "float", "Decimal", "str"}
    \/ (x.t = "str" /\ ~isdigit(x.s))

\* the sign test placed before the type test
validate_params_sign_first(args, kwargs) ==
    IF Len(args) = 0 /\ DOMAIN kwargs = {}
    THEN [err |-> NoParamsError, args |-> <<>>, kwargs |-> NoKwargs]
    ELSE IF \/ \E i \in 1..Len(args) : args[i].t # "str" /\ args[i].v <= 0
            \/ \E k \in DOMAIN kwargs : kwargs[k].t # "str" /\ kwargs[k].v <= 0
    THEN [err |-> NonPositiveError, args |-> <<>>, kwargs |-> NoKwargs]
    ELSE IF \/ \E i \in 1..Len(args) : BadType(args[i])
            \/ \E k \in DOMAIN kwargs : BadType(kwargs[k])
    THEN [err |-> TypeMismatch, args |-> <<>>, kwargs |-> NoKwargs]
    ELSE [err |-> NoError, args |-> args, kwargs |-> kwargs]

validate_params(args, kwargs) ==
    IF Len(args) = 0 /\ DOMAIN kwargs = {}
    THEN [err |-> NoParamsError, args |-> <<>>, kwargs |-> NoKwargs]
    ELSE IF \/ \E i \in 1..Len(args) : BadType(args[i])
            \/ \E k \in DOMAIN kwargs : BadType(kwargs[k])
    THEN [err |-> TypeMismatch, args |-> <<>>, kwargs |-> NoKwargs]
    ELSE
      LET anyStr == \/ \E i \in 1..Len(args) : args[i].t = "str"
                    \/ \E k \in DOMAIN kwargs : kwargs[k].t = "str"
          args2 == IF anyStr
                   THEN [i \in 1..Len(args) |->
                           IF args[i].t = "str" THEN float(args[i]) ELSE args[i]]
                   ELSE args
          kwargs2 == IF anyStr
                     THEN [k \in {n \in DOMAIN kwargs : kwargs[n].t = "str"} |->
                             float(kwargs[k])]
                     ELSE kwargs
      IN IF \/ \E i \in 1..Len(args2) : args2[i].v <= 0
            \/ \E k \in DOMAIN kwargs2 : kwargs2[k].v <= 0
         THEN [err |-> NonPositiveError, args |-> <<>>, kwargs |-> NoKwargs]
         ELSE [err |-> NoError, args |-> args2, kwargs |-> kwargs2]

(***************************************************************************)
(* Inputs.                                                                 *)
(***************************************************************************)
SeqsUpTo(S, n) == UNION {[1..k -> S] : k \in 0..n}

ParamValues ==
    {IntV(-1), IntV(0), IntV(2), FloatV(3), DecV(4),
     StrV(<<"0">>), StrV(<<"1", "2">>), StrV(<<"a", "1">>),
     BoolV(1), BoolV(0), NoneV}

ParamNames == {"x", "precision"}

KwargSets == UNION {[D -> ParamValues] : D \in SUBSET ParamNames}

SmallSideValues ==
    {IntV(-1), IntV(0), IntV(1), IntV(2), IntV(3), FloatV(2), DecV(3),
     StrV(<<"2">>), StrV(<<"a", "1">>), BoolV(1)}

BigSideTriples ==
    {<<IntV(a), IntV(b), IntV(c)>> : a \in 1..MaxBigSide, b \in 1..MaxBigSide, c \in 1..MaxBigSide}

TriangleInputs == SeqsUpTo(SmallSideValues, MaxSides) \cup BigSideTriples

(***************************************************************************)
(* Figure instances: the class, the instance attributes that are set, and  *)
(* their values.                                                           *)
(***************************************************************************)
NoFig ==
    [cls |-> "none", attrs |-> {}, args |-> <<>>, kwargs |-> NoKwargs,
     precision |-> NoneV, radius |-> NoneV, sides |-> <<>>]

NoNum == [t |-> "none", form |-> "none", num |-> 0, den |-> 1]

NoResult ==
    [err |-> NoError, args |-> <<>>, kwargs |-> NoKwargs, flag |-> FALSE, num |-> NoNum]

Raise(e) == [NoResult EXCEPT !.err = e]

DefaultPrecision == 100

\* the attributes each class body defines
ClassDict(cls) ==
    CASE cls = "FigureBase" -> {"__init__", "has_decimal", "area"}
      [] cls = "Circle" -> {"__init__", "area"}
      [] cls = "Triangle" ->
           {"__init__", "is_right", "_get_right_triangle_area", "_squared_herons_area", "area"}
      [] cls = "figures.FigureBase" -> {"__init__", "detect_decimal", "area"}
      [] cls = "figures.Circle" -> {"__init__", "area"}
      [] cls = "figures.Triangle" ->
           {"__init__", "is_right", "_get_right_triangle_area", "_squared_herons_area", "area"}
      [] OTHER -> {}

\* the base class of a class: each module has its own FigureBase
BaseOf(cls) ==
    IF cls \in {"figures.FigureBase", "figures.Circle", "figures.Triangle"}
    THEN "figures.FigureBase"
    ELSE "FigureBase"

\* attribute lookup on an instance: the instance, its class, then its base
HasAttr(self, name) ==
    \/ name \in self.attrs
    \/ name \in ClassDict(self.cls)
    \/ name \in ClassDict(BaseOf(self.cls))

has_decimal(args, kwargs) ==
    \/ \E i \in 1..Len(args) : args[i].t = "Decimal"
    \/ \E k \in DOMAIN kwargs : kwargs[k].t = "Decimal"

\* FigureBase.__init__ upgrading the positional parameters only
FigureBase_init_args_only(cls, args, kwargs) ==
    LET validated_params == validate_params(args, kwargs)
        self == [NoFig EXCEPT !.cls = cls]
    IN IF validated_params.err # NoError
       THEN [err |-> validated_params.err, self |-> self]
       ELSE IF has_decimal(validated_params.args, validated_params.kwargs)
       THEN [err |-> NoError,
             self |-> [self EXCEPT
                 !.attrs = {"precision", "args", "kwargs"},
                 !.precision = IF "precision" \in DOMAIN kwargs
                               THEN kwargs["precision"]
                               ELSE IntV(DefaultPrecision),
                 !.args = [i \in 1..Len(validated_params.args) |->
                             IF validated_params.args[i].t # "Decimal"
                             THEN Decimal(validated_params.args[i])
                             ELSE validated_params.args[i]],
                 !.kwargs = validated_params.kwargs]]
       ELSE [err |-> NoError,
             self |-> [self EXCEPT
                 !.attrs = {"args", "kwargs"},
                 !.args = validated_params.args,
                 !.kwargs = validated_params.kwargs]]

\* FigureBase.__init__ run on a new instance of cls; self is the instance as
\* __init__ left it, err the exception it raised
FigureBase_init(cls, args, kwargs) ==
    LET validated_params == validate_params(args, kwargs)
        self == [NoFig EXCEPT !.cls = cls]
    IN IF validated_params.err # NoError
       THEN [err |-> validated_params.err, self |-> self]
       ELSE IF has_decimal(validated_params.args, validated_params.kwargs)
       THEN [err |-> NoError,
             self |-> [self EXCEPT
                 !.attrs = {"precision", "args", "kwargs"},
                 !.precision = IF "precision" \in DOMAIN kwargs
                               THEN kwargs["precision"]
                               ELSE IntV(DefaultPrecision),
                 !.args = [i \in 1..Len(validated_params.args) |->
                             IF validated_params.args[i].t # "Decimal"
                             THEN Decimal(validated_params.args[i])
                             ELSE validated_params.args[i]],
                 !.kwargs = [k \in DOMAIN validated_params.kwargs |->
                             IF validated_params.kwargs[k].t # "Decimal"
                             THEN Decimal(validated_params.kwargs[k])
                             ELSE validated_params.kwargs[k]]]]
       ELSE [err |-> NoError,
             self |-> [self EXCEPT
                 !.attrs = {"args", "kwargs"},
                 !.args = validated_params.args,
                 !.kwargs = validated_params.kwargs]]

\* Circle.__init__(radius): the radius is always passed on positionally
Circle_init(radius) ==
    LET b == FigureBase_init("Circle", <<radius>>, NoKwargs)
    IN IF b.err # NoError THEN b
       ELSE [err |-> NoError,
             self |-> [b.self EXCEPT
                 !.attrs = @ \cup {"radius"},
                 !.radius = IF Len(b.self.args) > 0
                            THEN b.self.args[1]
                            ELSE IF "radius" \in DOMAIN b.self.kwargs
                                 THEN b.self.kwargs["radius"]
                                 ELSE NoneV]]

\* sorted(): stable, ascending by value
RECURSIVE sorted(_)
sorted(seq) ==
    IF Len(seq) = 0 THEN <<>>
    ELSE LET front == sorted(SubSeq(seq, 1, Len(seq) - 1))
             x == seq[Len(seq)]
             k == Cardinality({i \in 1..Len(front) : front[i].v <= x.v})
         IN SubSeq(front, 1, k) \o <<x>> \o SubSeq(front, k + 1, Len(front))

\* Triangle.__init__ with the count test before the base validation
Triangle_init_count_first(sides) ==
    LET b == FigureBase_init("Triangle", sides, NoKwargs)
    IN IF Len(sides) # 3 THEN [err |-> InvalidShape, self |-> b.self]
       ELSE IF b.err # NoError THEN b
       ELSE LET self == [b.self EXCEPT !.attrs = @ \cup {"sides"}, !.sides = sorted(b.self.args)]
            IN IF self.sides[1].v + self.sides[2].v <= self.sides[3].v
               THEN [err |-> DegenerateShape, self |-> self]
               ELSE [err |-> NoError, self |-> self]

\* Triangle.__init__ with the triangle inequality tested by < instead of <=
Triangle_init_nonstrict(sides) ==
    LET b == FigureBase_init("Triangle", sides, NoKwargs)
    IN IF b.err # NoError THEN b
       ELSE IF Len(b.self.args) # 3 THEN [err |-> InvalidShape, self |-> b.self]
       ELSE LET self == [b.self EXCEPT !.attrs = @ \cup {"sides"}, !.sides = sorted(b.self.args)]
            IN IF self.sides[1].v + self.sides[2].v < self.sides[3].v
               THEN [err |-> DegenerateShape, self |-> self]
               ELSE [err |-> NoError, self |-> self]

Triangle_init(sides) ==
    LET b == FigureBase_init("Triangle", sides, NoKwargs)
    IN IF b.err # NoError THEN b
       ELSE IF Len(b.self.args) # 3 THEN [err |-> InvalidShape, self |-> b.self]
       ELSE LET self == [b.self EXCEPT !.attrs = @ \cup {"sides"}, !.sides = sorted(b.self.args)]
            IN IF self.sides[1].v + self.sides[2].v <= self.sides[3].v
               THEN [err |-> DegenerateShape, self |-> self]
               ELSE [err |-> NoError, self |-> self]

Abs(x) == IF x < 0 THEN -x ELSE x
Max(x, y) == IF x >= y THEN x ELSE y

\* math.isclose default rel_tol = 1e-09, as its inverse
RelTolInv == 1000000000

\* math.isclose with a relative tolerance of 1e-01
isclose_loose(a, b) ==
    \/ a = b
    \/ Abs(a - b) <= Max(Abs(a), Abs(b)) \div 10

\* math.isclose(a, b): a == b, or |a - b| <= rel_tol * max(|a|, |b|) (abs_tol = 0)
isclose(a, b) ==
    \/ a = b
    \/ Abs(a - b) <= Max(Abs(a), Abs(b)) \div RelTolInv

is_right(self) ==
    isclose(self.sides[1].v * self.sides[1].v + self.sides[2].v * self.sides[2].v,
            self.sides[3].v * self.sides[3].v)

(***************************************************************************)
(* Numbers returned by area(): [t, form, num, den] stands for num/den      *)
(* ("rat"), its square root ("sqrt"), or its product with math.pi ("pi")   *)
(* or with the 101-digit literal ("pi101"); t is the Python type.          *)
(***************************************************************************)
RECURSIVE Gcd(_, _)
Gcd(a, b) == IF b = 0 THEN a ELSE Gcd(b, a % b)

Num(t, form, num, den) ==
    LET g == Gcd(Abs(num), den)
    IN [t |-> t, form |-> form, num |-> num \div g, den |-> den \div g]

\* catheti[0] * catheti[1] / denominator
get_right_triangle_area(t, catheti, denominator) ==
    Num(t, "rat", catheti[1].v * catheti[2].v, denominator)

\* half_perimeter * (half_perimeter - sides[0]) * (half_perimeter - sides[1])
\* * (half_perimeter - sides[2]), with half_perimeter = perimeter / 2
squared_herons_area(t, sides, perimeter) ==
    Num(t, "rat",
        perimeter * (perimeter - 2 * sides[1].v) * (perimeter - 2 * sides[2].v)
                  * (perimeter - 2 * sides[3].v),
        16)

sqrt(x) == [x EXCEPT !.form = "sqrt"]

\* Circle.area: self.detect_decimal is looked up first
Circle_area(self) ==
    IF ~HasAttr(self, "detect_decimal") THEN Raise(NoDetectDecimal)
    ELSE IF has_decimal(<<self.radius>>, NoKwargs)
    THEN [NoResult EXCEPT !.num = Num("Decimal", "pi101", self.radius.v * self.radius.v, 1)]
    ELSE [NoResult EXCEPT !.num = Num("float", "pi", self.radius.v * self.radius.v, 1)]

\* Triangle.area: is_right() runs, then self.detect_decimal is looked up;
\* sum(self.sides) adds the stored sides, and Decimal + float raises
Triangle_area(self) ==
    LET right == is_right(self)
        perimeter == self.sides[1].v + self.sides[2].v + self.sides[3].v
    IN IF ~HasAttr(self, "detect_decimal") THEN Raise(NoDetectDecimal)
       ELSE IF has_decimal(self.sides, NoKwargs)
       THEN LET sides == [i \in 1..3 |->
                            IF self.sides[i].t # "Decimal"
                            THEN Decimal(self.sides[i]) ELSE self.sides[i]]
            IN IF right
               THEN [NoResult EXCEPT !.num = get_right_triangle_area("Decimal", sides, 2)]
               ELSE IF \E i \in 1..3 : self.sides[i].t = "float"
               THEN Raise(UnsupportedOperand)
               ELSE [NoResult EXCEPT
                       !.num = sqrt(squared_herons_area("Decimal", sides, perimeter))]
       ELSE IF right
       THEN [NoResult EXCEPT !.num = get_right_triangle_area("float", self.sides, 2)]
       ELSE [NoResult EXCEPT !.num = sqrt(squared_herons_area("float", self.sides, perimeter))]

\* a FigureBase.area whose body is `pass`
FigureBase_area_pass(self) == NoResult

\* FigureBase.area
FigureBase_area(self) == Raise(Unimplemented)

\* the class whose body supplies an attribute of an instance of cls
Definer(cls, name) == IF name \in ClassDict(cls) THEN cls ELSE BaseOf(cls)

CircleClasses == {"Circle", "figures.Circle"}
TriangleClasses == {"Triangle", "figures.Triangle"}

\* self.area(), resolved through the class of the instance
area(self) ==
    CASE Definer(self.cls, "area") \in CircleClasses -> Circle_area(self)
      [] Definer(self.cls, "area") \in TriangleClasses -> Triangle_area(self)
      [] OTHER -> FigureBase_area(self)

(***************************************************************************)
(* The decimal context: each thread has its own current context, of which  *)
(* the precision is kept.  `with localcontext() as ctx: ctx.prec = 100`    *)
(* makes a copy current for the block and puts the saved one back however  *)
(* the block is left.                                                      *)
(***************************************************************************)
Threads == {"main", "worker"}

ScopedPrecision == 100

\* getcontext().prec = 100: the precision stays after the block
getcontext_prec(saved) == [inside |-> ScopedPrecision, after |-> ScopedPrecision]

\* the precision current inside the block, and after it, however it is left
localcontext(saved) == [inside |-> ScopedPrecision, after |-> saved]

\* the precision of the calling thread's context once self.area() has ended
\* (by a return inside the block, a return after it, or an exception), prec
\* being its precision at the call
area_precision(self, prec) ==
    IF Definer(self.cls, "area") \notin CircleClasses \cup TriangleClasses THEN prec
    ELSE IF ~HasAttr(self, "detect_decimal") THEN prec
    ELSE IF Definer(self.cls, "area") \in CircleClasses
    THEN IF has_decimal(<<self.radius>>, NoKwargs) THEN localcontext(prec).after ELSE prec
    ELSE IF has_decimal(self.sides, NoKwargs) THEN localcontext(prec).after ELSE prec

(***************************************************************************)
(* The module figures: its FigureBase tests presence and sign only and     *)
(* stores nothing; Circle and Triangle keep the values as given.           *)
(***************************************************************************)
figures_FigureBase_init(cls, args, kwargs) ==
    LET self == [NoFig EXCEPT !.cls = cls]
    IN IF Len(args) = 0 /\ DOMAIN kwargs = {}
       THEN [err |-> NoParamsError, self |-> self]
       ELSE IF \/ \E i \in 1..Len(args) : args[i].v <= 0
               \/ \E k \in DOMAIN kwargs : kwargs[k].v <= 0
       THEN [err |-> NonPositiveError, self |-> self]
       ELSE [err |-> NoError, self |-> self]

figures_Circle_init(radius) ==
    LET b == figures_FigureBase_init("figures.Circle", <<radius>>, NoKwargs)
    IN IF b.err # NoError THEN b
       ELSE [err |-> NoError,
             self |-> [b.self EXCEPT !.attrs = {"radius"}, !.radius = radius]]

\* sides[0] + sides[1] of a Decimal and a float raises
figures_Triangle_init(sides) ==
    LET b == figures_FigureBase_init("figures.Triangle", sides, NoKwargs)
    IN IF b.err # NoError THEN b
       ELSE IF Len(sides) # 3 THEN [err |-> InvalidShape, self |-> b.self]
       ELSE LET self == [b.self EXCEPT !.attrs = {"sides"}, !.sides = sorted(sides)]
            IN IF {self.sides[1].t, self.sides[2].t} = {"Decimal", "float"}
               THEN [err |-> UnsupportedOperand, self |-> self]
               ELSE IF self.sides[1].v + self.sides[2].v <= self.sides[3].v
               THEN [err |-> DegenerateShape, self |-> self]
               ELSE [err |-> NoError, self |-> self]

\* numbers of the three numeric types
FiguresValues ==
    {IntV(0), IntV(3), IntV(4), IntV(5), FloatV(5), DecV(3), DecV(4), DecV(5)}

(***************************************************************************)
(* State: the last call and its result, the figure the caller holds, the   *)
(* figure as its constructor returned it, and the outcomes of the area()   *)
(* calls made on it.                                                       *)
(***************************************************************************)
NoCall == [op |-> "none", cls |-> "none", args |-> <<>>, kwargs |-> NoKwargs]

Init ==
    /\ call = NoCall
    /\ res = NoResult
    /\ fig = NoFig
    /\ built = NoFig
    /\ areas = <<>>
    /\ ncalls = 0
    /\ ctx = [t \in Threads |-> IF t = "main" THEN 28 ELSE 50]
    /\ areaThread = "none"

\* fig = cls(...), the one constructor call of a run: the name is bound only
\* when __init__ returns
Construct(cls, args, kwargs, r) ==
    /\ call' = [op |-> "__init__", cls |-> cls, args |-> args, kwargs |-> kwargs]
    /\ res' = Raise(r.err)
    /\ fig' = IF r.err = NoError THEN r.self ELSE fig
    /\ built' = fig'
    /\ UNCHANGED <<areas, ncalls, ctx, areaThread>>

\* validate_params(*args, **kwargs) called on its own, once per run
ValidateCall ==
    /\ call = NoCall
    /\ \E args \in SeqsUpTo(ParamValues, MaxArgs), kwargs \in KwargSets :
         /\ call' = [op |-> "validate_params", cls |-> "none",
                     args |-> args, kwargs |-> kwargs]
         /\ LET r == validate_params(args, kwargs)
            IN res' = [NoResult EXCEPT !.err = r.err, !.args = r.args, !.kwargs = r.kwargs]
    /\ UNCHANGED <<fig, built, areas, ncalls, ctx, areaThread>>

\* FigureBase.detect_decimal(*args, **kwargs) called on the class
DetectDecimalCall ==
    /\ call = NoCall
    /\ \E args \in SeqsUpTo(ParamValues, MaxArgs), kwargs \in KwargSets :
         /\ call' = [op |-> "detect_decimal", cls |-> "FigureBase",
                     args |-> args, kwargs |-> kwargs]
         /\ res' = IF "detect_decimal" \in ClassDict("FigureBase")
                   THEN [NoResult EXCEPT !.flag = has_decimal(args, kwargs)]
                   ELSE Raise(NoStaticDetectDecimal)
    /\ UNCHANGED <<fig, built, areas, ncalls, ctx, areaThread>>

\* FigureBase.has_decimal(*args, **kwargs) called on the class
HasDecimalCall ==
    /\ call = NoCall
    /\ \E args \in SeqsUpTo(ParamValues, MaxArgs), kwargs \in KwargSets :
         /\ call' = [op |-> "has_decimal", cls |-> "FigureBase",
                     args |-> args, kwargs |-> kwargs]
         /\ res' = [NoResult EXCEPT !.flag = has_decimal(args, kwargs)]
    /\ UNCHANGED <<fig, built, areas, ncalls, ctx, areaThread>>

\* FigureBase itself, or a subclass whose body is `pass`
BaseClasses == {"FigureBase", "FakeFigure"}

NewFigureBase ==
    /\ call = NoCall
    /\ \E cls \in BaseClasses, args \in SeqsUpTo(ParamValues, MaxArgs), kwargs \in KwargSets :
         Construct(cls, args, kwargs, FigureBase_init(cls, args, kwargs))

NewCircle ==
    /\ call = NoCall
    /\ \E radius \in ParamValues :
         Construct("Circle", <<radius>>, NoKwargs, Circle_init(radius))

NewTriangle ==
    /\ call = NoCall
    /\ \E sides \in TriangleInputs :
         Construct("Triangle", sides, NoKwargs, Triangle_init(sides))

NewFiguresCircle ==
    /\ call = NoCall
    /\ \E radius \in FiguresValues :
         Construct("figures.Circle", <<radius>>, NoKwargs, figures_Circle_init(radius))

NewFiguresTriangle ==
    /\ call = NoCall
    /\ \E sides \in SeqsUpTo(FiguresValues, MaxSides) :
         Construct("figures.Triangle", sides, NoKwargs, figures_Triangle_init(sides))

\* fig.is_right()
IsRight ==
    /\ fig # NoFig
    /\ ncalls < MaxCalls
    /\ call' = [op |-> "is_right", cls |-> fig.cls, args |-> <<>>, kwargs |-> NoKwargs]
    /\ res' = IF HasAttr(fig, "is_right")
              THEN [NoResult EXCEPT !.flag = is_right(fig)]
              ELSE Raise(NoIsRight)
    /\ ncalls' = ncalls + 1
    /\ UNCHANGED <<fig, built, areas, ctx, areaThread>>

\* fig.area(), called in one of the threads
Area ==
    /\ fig # NoFig
    /\ ncalls < MaxCalls
    /\ call' = [op |-> "area", cls |-> fig.cls, args |-> <<>>, kwargs |-> NoKwargs]
    /\ res' = area(fig)
    /\ areas' = Append(areas, res')
    /\ ncalls' = ncalls + 1
    /\ \E t \in Threads :
         /\ areaThread' = t
         /\ ctx' = [ctx EXCEPT ![t] = area_precision(fig, ctx[t])]
    /\ UNCHANGED <<fig, built>>

SpecValidate == Init /\ [][ValidateCall]_vars

Next ==
    \/ NewFigureBase
    \/ NewCircle
    \/ NewTriangle
    \/ IsRight
    \/ Area

Spec == Init /\ [][Next]_vars

NextAll ==
    \/ ValidateCall
    \/ DetectDecimalCall
    \/ HasDecimalCall
    \/ NewFigureBase
    \/ NewCircle
    \/ NewTriangle
    \/ IsRight
    \/ Area

SpecAll == Init /\ [][NextAll]_vars

\* the figures of both modules
NextFigures ==
    \/ NewCircle
    \/ NewTriangle
    \/ NewFiguresCircle
    \/ NewFiguresTriangle
    \/ IsRight
    \/ Area

SpecFigures == Init /\ [][NextFigures]_vars

(***************************************************************************)
(* Vocabulary of the properties.                                           *)
(***************************************************************************)
AllValues(args, kwargs) ==
    {args[i] : i \in 1..Len(args)} \cup {kwargs[k] : k \in DOMAIN kwargs}

PassesTypeCheck(x) ==
    \/ x.t \in {"int", "float", "Decimal"}
    \/ (x.t = "str" /\ x.s # <<>> /\ \A i \in 1..Len(x.s) : x.s[i] \in Digits)

\* the number a value stands for once a digit-only str is read as a number
NumValue(x) == IF x.t = "str" THEN DigitsValue(x.s) ELSE x.v

\* the value validate_params is to return for a supplied value
Coerced(x) == IF x.t = "str" THEN FloatV(DigitsValue(x.s)) ELSE x

ValidateCalled == call.op = "validate_params"

NoParams == Len(call.args) = 0 /\ DOMAIN call.kwargs = {}

AllWellTyped == \A x \in AllValues(call.args, call.kwargs) : PassesTypeCheck(x)

SomeNonPositive ==
    \E x \in AllValues(call.args, call.kwargs) : PassesTypeCheck(x) /\ NumValue(x) <= 0

\* C1: validate_params checks presence, then type, then sign: no parameter
\* at all gives the 'no parameters' ValueError; otherwise any ill-typed
\* value or non-digit string gives the TypeError, even beside a value <= 0;
\* the 'must be positive' ValueError is raised only when every value passes
\* the type check and some value is <= 0.
C1_PresenceTypeSign ==
    ValidateCalled =>
        /\ NoParams => res.err = NoParamsError
        /\ (~NoParams /\ ~AllWellTyped) => res.err = TypeMismatch
        /\ res.err = NonPositiveError => (~NoParams /\ AllWellTyped /\ SomeNonPositive)

C1_Witness ==
    /\ ValidateCalled
    /\ ~AllWellTyped
    /\ SomeNonPositive
    /\ res.err = TypeMismatch

\* C2: whenever every supplied value passes the type check and at least one
\* positional or named value is <= 0 after coercion, validate_params fails
\* with the 'must be positive' ValueError.
C2_NonPositiveAlwaysRejected ==
    (ValidateCalled /\ AllWellTyped /\ SomeNonPositive) => res.err = NonPositiveError

\* C3: when validate_params succeeds it returns every positional parameter
\* in its original order and every named parameter under its name, a
\* digit-only string as its float value and any other value unchanged.
C3_NormalizedFormKeepsAll ==
    (ValidateCalled /\ res.err = NoError) =>
        /\ Len(res.args) = Len(call.args)
        /\ \A i \in 1..Len(call.args) : res.args[i] = Coerced(call.args[i])
        /\ DOMAIN res.kwargs = DOMAIN call.kwargs
        /\ \A k \in DOMAIN call.kwargs : res.kwargs[k] = Coerced(call.kwargs[k])

\* C4: a boolean, passed positionally or by name, is rejected with the
\* TypeError of the type check; it is never accepted as the integer 1 or 0.
C4_BooleanRejected ==
    (ValidateCalled /\ \E x \in AllValues(call.args, call.kwargs) : x.t = "bool")
        => res.err = TypeMismatch

C4_Witness ==
    /\ ValidateCalled
    /\ \E i \in 1..Len(call.args) : call.args[i] = BoolV(1)
    /\ \E k \in DOMAIN call.kwargs : call.kwargs[k] = BoolV(0)
    /\ \A x \in AllValues(call.args, call.kwargs) : x.t = "bool"
    /\ res.err = TypeMismatch

TriangleConstructed == call.op = "__init__" /\ call.cls = "Triangle"

ValuesBag(seq) ==
    [n \in {NumValue(seq[i]) : i \in 1..Len(seq)} |->
        Cardinality({i \in 1..Len(seq) : NumValue(seq[i]) = n})]

\* some two of three sides sum to no more than the third
Degenerate(sides) ==
    \E i, j, k \in 1..3 :
        /\ i # j /\ i # k /\ j # k
        /\ NumValue(sides[i]) + NumValue(sides[j]) <= NumValue(sides[k])

\* C5: Triangle construction reports the first failure in this order: no
\* sides, an ill-typed side, a side <= 0, a side count other than 3, the
\* triangle inequality violated; so a non-positive side is reported before
\* a wrong count and a wrong count before the inequality.
C5_TriangleCheckOrder ==
    TriangleConstructed =>
        res.err =
            IF NoParams THEN NoParamsError
            ELSE IF ~AllWellTyped THEN TypeMismatch
            ELSE IF SomeNonPositive THEN NonPositiveError
            ELSE IF Len(call.args) # 3 THEN InvalidShape
            ELSE IF Degenerate(call.args) THEN DegenerateShape
            ELSE NoError

C5_Witness ==
    /\ TriangleConstructed
    /\ Len(call.args) = 2
    /\ AllWellTyped
    /\ SomeNonPositive
    /\ res.err = NonPositiveError

\* C6: a Triangle that was constructed stores, in every later state, exactly
\* three sides that are a permutation of the validated inputs, ascending,
\* strictly positive, with sides[0] + sides[1] > sides[2]; a construction
\* that fails binds no Triangle.
C6_TriangleInvariant ==
    /\ fig.cls = "Triangle" =>
          /\ "sides" \in fig.attrs
          /\ Len(fig.sides) = 3
          /\ ValuesBag(fig.sides) = ValuesBag(fig.args)
          /\ \A i \in 1..3 : \E j \in 1..3 : fig.sides[i] = fig.args[j]
          /\ TriangleConstructed => ValuesBag(fig.sides) = ValuesBag(call.args)
          /\ fig.sides[1].v <= fig.sides[2].v /\ fig.sides[2].v <= fig.sides[3].v
          /\ \A i \in 1..3 : fig.sides[i].v > 0
          /\ fig.sides[1].v + fig.sides[2].v > fig.sides[3].v
    /\ (TriangleConstructed /\ res.err # NoError) => fig = NoFig

C6_Witness ==
    /\ fig.cls = "Triangle"
    /\ ncalls > 0
    /\ fig.sides[1].v < fig.sides[2].v
    /\ fig.args[1].v > fig.args[2].v

\* C7: area() on a constructed Circle or Triangle returns a number and never
\* ends in an error.
C7_AreaReturnsNumber ==
    (call.op = "area" /\ call.cls \in {"Circle", "Triangle"}) =>
        /\ res.err = NoError
        /\ res.num.t \in {"float", "Decimal"}

Permutations3 ==
    {p \in [1..3 -> 1..3] : \A i, j \in 1..3 : i # j => p[i] # p[j]}

Permuted(seq, p) == [i \in 1..3 |-> seq[p[i]]]

\* construction and is_right() alone, over the permutations of three inputs
PermutationInvariantConstruction ==
    (TriangleConstructed /\ Len(call.args) = 3) =>
        \A p \in Permutations3 :
            LET r == Triangle_init(Permuted(call.args, p))
            IN /\ r.err = res.err
               /\ res.err = NoError => is_right(r.self) = is_right(fig)

\* C8: every permutation of three inputs has the same construction outcome,
\* and for a valid triangle area() and is_right() return the same result as
\* for the original order.
C8_PermutationInvariant ==
    (TriangleConstructed /\ Len(call.args) = 3) =>
        \A p \in Permutations3 :
            LET r == Triangle_init(Permuted(call.args, p))
            IN /\ r.err = res.err
               /\ res.err = NoError =>
                     /\ is_right(r.self) = is_right(fig)
                     /\ area(r.self).err = NoError
                     /\ area(r.self) = area(fig)

RECURSIVE SumSquares(_)
SumSquares(seq) ==
    IF Len(seq) = 0 THEN 0
    ELSE seq[1].v * seq[1].v + SumSquares(Tail(seq))

Largest(seq) == CHOOSE m \in {seq[i].v : i \in 1..Len(seq)} :
                    \A i \in 1..Len(seq) : seq[i].v <= m

\* C9: is_right() on a constructed Triangle with sides a <= b <= c returns
\* true iff a^2 + b^2 = c^2 (what the 1e-9 relative tolerance amounts to
\* for the integer-valued sides checked).
C9_IsRightPythagorean ==
    (call.op = "is_right" /\ call.cls = "Triangle") =>
        /\ res.err = NoError
        /\ res.flag =
             (SumSquares(fig.args) - Largest(fig.args) * Largest(fig.args)
                = Largest(fig.args) * Largest(fig.args))

C9_Witness ==
    /\ call.op = "is_right"
    /\ call.cls = "Triangle"
    /\ fig.args = <<IntV(13), IntV(5), IntV(12)>>
    /\ res.flag

\* C10: area() and is_right() leave the stored parameters as construction
\* left them, and any two area() calls on one instance return identical
\* results.
C10_AreaIdempotent ==
    /\ call.op \in {"area", "is_right"} => fig = built
    /\ (call.op = "area" /\ call.cls \in {"Circle", "Triangle"}) =>
          /\ res.err = NoError
          /\ \A i, j \in 1..Len(areas) : areas[i] = areas[j]

\* the frame part of C10 alone
StoredParametersUnchanged ==
    /\ call.op \in {"area", "is_right"} => fig = built
    /\ \A i, j \in 1..Len(areas) : areas[i] = areas[j]

AreaCalled == call.op = "area" /\ call.cls \in {"Circle", "Triangle"}

\* C11: area() returns an arbitrary-precision decimal iff at least one
\* parameter given to the constructor was a decimal, and a native float
\* otherwise (int inputs and digit-only strings included).
C11_ResultPrecisionClass ==
    AreaCalled =>
        /\ res.err = NoError
        /\ res.num.t = IF \E i \in 1..Len(built.args) : built.args[i].t = "Decimal"
                       THEN "Decimal" ELSE "float"

\* C12: area() on the figure base class, or on a subclass that does not
\* override it, fails with NotImplementedError and the message "Subclasses
\* must implement method '.area()'."; it never returns a value.
C12_BaseAreaUnimplemented ==
    (call.op = "area" /\ call.cls \in BaseClasses) =>
        /\ res.err.kind = "NotImplementedError"
        /\ res.err.msg = "Subclasses must implement method '.area()'."
        /\ res.num = NoNum

C12_Witness ==
    /\ call.op = "area"
    /\ call.cls = "FakeFigure"
    /\ fig.args = <<IntV(2)>>
    /\ res.err.kind = "NotImplementedError"

SomeDecimal == \E x \in AllValues(call.args, call.kwargs) : x.t = "Decimal"

\* C14: FigureBase.detect_decimal, called on the class with any positional
\* and named values, returns true iff at least one of them is a Decimal.
C14_DetectDecimalOnBase ==
    call.op = "detect_decimal" =>
        /\ res.err = NoError
        /\ res.flag = SomeDecimal

\* the same statement of the operation under the name the base class gives it
HasDecimalDetects ==
    call.op = "has_decimal" =>
        /\ res.err = NoError
        /\ res.flag = SomeDecimal

Constructed == call.op = "__init__" /\ res.err = NoError

\* C15: after a successful construction the stored parameters are
\* precision-homogeneous: if a validated parameter is a decimal, every
\* stored positional and named parameter is a decimal of the same value as
\* the validated one; if none is, the stored parameters are the validated
\* ones; stored parameters never mix decimals and non-decimals.
C15_PrecisionHomogeneous ==
    /\ fig # NoFig =>
          \/ \A x \in AllValues(fig.args, fig.kwargs) : x.t = "Decimal"
          \/ \A x \in AllValues(fig.args, fig.kwargs) : x.t # "Decimal"
    /\ Constructed =>
          LET validated == validate_params(call.args, call.kwargs)
          IN /\ Len(fig.args) = Len(validated.args)
             /\ DOMAIN fig.kwargs = DOMAIN validated.kwargs
             /\ IF \E x \in AllValues(validated.args, validated.kwargs) : x.t = "Decimal"
                THEN /\ \A i \in 1..Len(fig.args) :
                          fig.args[i].t = "Decimal" /\ fig.args[i].v = validated.args[i].v
                     /\ \A k \in DOMAIN fig.kwargs :
                          fig.kwargs[k].t = "Decimal" /\ fig.kwargs[k].v = validated.kwargs[k].v
                ELSE fig.args = validated.args /\ fig.kwargs = validated.kwargs

C15_Witness ==
    /\ Constructed
    /\ call.cls = "FigureBase"
    /\ call.args = <<DecV(4), FloatV(3)>>
    /\ "x" \in DOMAIN call.kwargs /\ call.kwargs["x"] = IntV(2)
    /\ fig.args = <<DecV(4), DecV(3)>>
    /\ fig.kwargs["x"] = DecV(2)

\* 16 times the squared Heron area of three sides, in exact arithmetic
HeronProduct(sides) ==
    LET p == sides[1].v + sides[2].v + sides[3].v
    IN p * (p - 2 * sides[1].v) * (p - 2 * sides[2].v) * (p - 2 * sides[3].v)

TriangleAreaCalled == call.op = "area" /\ call.cls = "Triangle"

\* a right triangle's half product of legs is its Heron area: with sides
\* a <= b <= c and a^2 + b^2 = c^2, 16 * (a * b / 2)^2 is the Heron product,
\* and _get_right_triangle_area gives a * b / 2
RightAreaAgreesWithHeron ==
    (fig # NoFig /\ fig.cls \in TriangleClasses /\ is_right(fig)) =>
        /\ 4 * fig.sides[1].v * fig.sides[1].v * fig.sides[2].v * fig.sides[2].v
             = HeronProduct(fig.sides)
        /\ get_right_triangle_area("float", fig.sides, 2)
             = Num("float", "rat", fig.sides[1].v * fig.sides[2].v, 2)

\* C16: area() of a right triangle returns half the product of its two
\* shorter sides, which is the value Heron's formula gives; area() of any
\* other triangle returns the square root of s(s-a)(s-b)(s-c), s being the
\* half perimeter.
C16_RightTriangleArea ==
    TriangleAreaCalled =>
        /\ res.err = NoError
        /\ IF is_right(fig)
           THEN /\ res.num.form = "rat"
                /\ 2 * res.num.num = fig.sides[1].v * fig.sides[2].v * res.num.den
                /\ 4 * fig.sides[1].v * fig.sides[1].v * fig.sides[2].v * fig.sides[2].v
                     = HeronProduct(fig.sides)
           ELSE /\ res.num.form = "sqrt"
                /\ 16 * res.num.num = HeronProduct(fig.sides) * res.num.den

InitialPrecision == [t \in Threads |-> IF t = "main" THEN 28 ELSE 50]

ScopedBlockLeftByException ==
    /\ call.op = "area"
    /\ call.cls = "figures.Triangle"
    /\ res.err = UnsupportedOperand
    /\ ctx = InitialPrecision

\* the squared Heron area of every constructed triangle is strictly
\* positive in exact arithmetic
HeronStrictlyPositive ==
    (fig # NoFig /\ fig.cls \in TriangleClasses) =>
        /\ HeronProduct(fig.sides) > 0
        /\ squared_herons_area("float", fig.sides,
                               fig.sides[1].v + fig.sides[2].v + fig.sides[3].v).num > 0

\* C18: for a constructed triangle that is not right the squared Heron
\* area is strictly positive, and area() returns its square root, a
\* strictly positive number.
C18_HeronPositive ==
    (TriangleAreaCalled /\ ~is_right(fig)) =>
        /\ HeronProduct(fig.sides) > 0
        /\ res.err = NoError
        /\ res.num.form = "sqrt"
        /\ res.num.num > 0

====
